---- MODULE Spec2Model ----
(***************************************************************************)
(* Task lifecycle and process management of EasyTune-LLM.                  *)
(*                                                                         *)
(*   backend/common/process_manager.py     ProcessManager (pid registry,   *)
(*                                         liveness, stop_process)         *)
(*   backend/common/training_runner.py     start_training_task (launcher)  *)
(*   backend/api-gateway/routers/tasks.py  create/update/cancel/delete     *)
(*   backend/api-gateway/routers/tasks_management.py  stop/delete(force)   *)
(*                                                                         *)
(* The service runs several workers (config.py WORKERS) and the launcher   *)
(* runs in its own thread, so requests, launches and stop_process calls    *)
(* interleave; each of them is split at the points where it touches the    *)
(* task store, the pid directory or the OS process table.                  *)
(***************************************************************************)
EXTENDS Integers, FiniteSets, Sequences, TLC

\* ------------------------------------------------------------------ bounds
\* SpecPM: the process manager and the launcher under concurrent callers
PMTasks == 1        \* task ids in use
PMPids == 1         \* pids the OS hands out
PMLaunches == 1     \* start_training_task calls made
PMStops == 2        \* ProcessManager.stop_process calls made
\* SpecSeq: the process manager and the launcher under one caller
SeqTasks == 1
SeqPids == 1
SeqLaunches == 1
SeqStops == 2
\* SpecCtl: stop_process and get_task_status under one caller
CtlTasks == 1
CtlPids == 1
CtlLaunches == 1
CtlStops == 1
\* SpecReq: the task requests of the routers, one at a time
ReqTasks == 1
ReqPids == 1
ReqLaunches == 1
ReqStops == 1
\* Spec: the task requests of the routers
ApiTasks == 1
ApiPids == 1
ApiLaunches == 1
ApiStops == 1
\* SpecKey: the process manager called for several task ids at once
KeyTasks == 2
KeyPids == 1
KeyLaunches == 2
KeyStops == 1
\* SpecCfg: task creation with the LoRA presets; SpecRefs: launches of tasks
\* whose model or dataset row may be gone
CfgTasks == 1
CfgPids == 1
CfgLaunches == 1
\* processes ever created (also the create_time clock)
MaxProc == 2

Max(a, b) == IF a > b THEN a ELSE b
Tasks ==
    1..Max(Max(Max(PMTasks, SeqTasks), Max(CtlTasks, ApiTasks)),
           Max(ReqTasks, Max(CfgTasks, KeyTasks)))
Pids ==
    1..Max(Max(Max(PMPids, SeqPids), Max(CtlPids, ApiPids)),
           Max(ReqPids, Max(CfgPids, KeyPids)))
Launchers ==
    1..Max(Max(Max(PMLaunches, SeqLaunches), Max(CtlLaunches, ApiLaunches)),
           Max(ReqLaunches, Max(CfgLaunches, KeyLaunches)))
Stoppers ==
    1..Max(Max(Max(PMStops, SeqStops), Max(CtlStops, ApiStops)),
           Max(ReqStops, KeyStops))

\* ------------------------------------------------------- TaskStatus (enum)
PENDING == "PENDING"
QUEUED == "QUEUED"
RUNNING == "RUNNING"
COMPLETED == "COMPLETED"
FAILED == "FAILED"
CANCELLED == "CANCELLED"
TaskStatus == {PENDING, QUEUED, RUNNING, COMPLETED, FAILED, CANCELLED}
Terminal == {COMPLETED, FAILED, CANCELLED}
\* a task id without a row: never created, or deleted
NOROW == "NOROW"
DELETED == "DELETED"

\* owner of a process that is no trainer of any task
NOTASK == 0
\* "no pid": get_pid's None, and a launcher or stopper that holds no pid yet
NoPid == 0

VARIABLES
    status,         \* task store: Task.status per task id (NOROW/DELETED: no row)
    error_message,  \* task store: Task.error_message per task id
    refs,           \* task store: the task's Model and Dataset rows both exist
    registry,       \* PID_DIR: the file task_<id>.pid per task id
    proc,           \* OS process table, per pid
    clock,          \* OS clock: number of processes created so far
    launch,         \* start_training_task invocations (one thread each)
    stop,           \* stop_process invocations, with the request that made them
    resp,           \* the last response given to a task request
    lastStop,       \* per task: the last stop_process call to return for it
                    \* was stop(id, force=False) and found a pid file, and
                    \* no launch has recorded a pid for the task since
    query,          \* the get_task_status call under way, and its result
    training_config,\* task store: the LoRA parameters stored with each task
    lora,           \* what the last direct call of get_lora_config returned
    config_file     \* LORA_ADAPTERS_DIR: per task, which launch wrote the
                    \* training_config.json of its output directory

vars == <<status, error_message, refs, registry, proc, clock, launch, stop,
          resp, lastStop, query, training_config, lora, config_file>>

\* ------------------------------------------------ config.py: LoRA presets
\* TaskComplexity (enum): the tiers a TaskCreate may carry
L1_BASIC == "l1_basic"
L2_DOMAIN == "l2_domain"
L3_COMPLEX == "l3_complex"
TaskComplexity == {L1_BASIC, L2_DOMAIN, L3_COMPLEX}
\* the strings get_lora_config is called with: the tiers and others
TierStrings == TaskComplexity \cup {"unknown_tier", "L1_BASIC", ""}

\* a float literal, mantissa e exponent
Float(m, e) == [mantissa |-> m, exponent |-> e]

AttentionModules == <<"q_proj", "k_proj", "v_proj">>
AllModules ==
    <<"q_proj", "k_proj", "v_proj", "o_proj", "gate_proj", "up_proj", "down_proj">>

LORA_CONFIG_L1 ==
    [rank |-> 8, alpha |-> 16, target_modules |-> AttentionModules,
     learning_rate |-> Float(3, -4)]
LORA_CONFIG_L2 ==
    [rank |-> 16, alpha |-> 32, target_modules |-> AllModules,
     learning_rate |-> Float(1, -4)]
LORA_CONFIG_L3 ==
    [rank |-> 32, alpha |-> 64, target_modules |-> AllModules,
     learning_rate |-> Float(5, -5)]

LORA_CONFIG_MAP ==
    [cx \in TaskComplexity |->
        IF cx = L1_BASIC THEN LORA_CONFIG_L1
        ELSE IF cx = L2_DOMAIN THEN LORA_CONFIG_L2
        ELSE LORA_CONFIG_L3]

\* a get_lora_config that falls back to the smallest preset
get_lora_config_l1(complexity) ==
    IF complexity \in DOMAIN LORA_CONFIG_MAP
    THEN LORA_CONFIG_MAP[complexity]
    ELSE LORA_CONFIG_L1

\* get_lora_config: LORA_CONFIG_MAP.get(complexity, settings.LORA_CONFIG_L2)
get_lora_config(complexity) ==
    IF complexity \in DOMAIN LORA_CONFIG_MAP
    THEN LORA_CONFIG_MAP[complexity]
    ELSE LORA_CONFIG_L2

\* a task configuration that stores the rank as alpha too
NewTaskConfig_rank(complexity) ==
    LET lora_config == get_lora_config(complexity) IN
    [task_complexity |-> complexity,
     lora_rank |-> lora_config.rank,
     lora_alpha |-> lora_config.rank,
     lora_target_modules |-> lora_config.target_modules,
     learning_rate |-> lora_config.learning_rate]

\* tasks.py create_task, lines 154-190: the LoRA parameters stored with a new
\* task (columns lora_rank, lora_alpha, learning_rate; training_config JSON)
NewTaskConfig(complexity) ==
    LET lora_config == get_lora_config(complexity) IN
    [task_complexity |-> complexity,
     lora_rank |-> lora_config.rank,
     lora_alpha |-> lora_config.alpha,
     lora_target_modules |-> lora_config.target_modules,
     learning_rate |-> lora_config.learning_rate]

\* no row, no parameters
NoConfig ==
    [task_complexity |-> "", lora_rank |-> 0, lora_alpha |-> 0,
     lora_target_modules |-> <<>>, learning_rate |-> Float(0, 0)]
\* get_lora_config has not been called
NoLora ==
    [rank |-> 0, alpha |-> 0, target_modules |-> <<>>,
     learning_rate |-> Float(0, 0)]

\* no training_config.json in the task's output directory
NoConfigFile == 0

\* ---------------------------------------------------------------- registry
\* The pid file of a task: missing, readable JSON {task_id, pid, timestamp},
\* or a file that json.load rejects.
NoFile == [kind |-> "absent", pid |-> NoPid, timestamp |-> 0]
BadFile == [kind |-> "corrupt", pid |-> NoPid, timestamp |-> 0]
PidFile(p, ts) == [kind |-> "ok", pid |-> p, timestamp |-> ts]

\* psutil.Process(pid) raises NoSuchProcess when no process has the pid
NoSuchProcess(pt, p) == pt[p].state = "free"

\* a save_pid whose file name leaves out the task id
save_pid_shared(reg, pt, t, p, io) ==
    IF ~io THEN reg
    ELSE IF NoSuchProcess(pt, p)
    THEN [reg EXCEPT ![1] = BadFile]
    ELSE [reg EXCEPT ![1] = PidFile(p, pt[p].start)]

\* save_pid opens the file for writing (creating or truncating it) and only
\* then evaluates psutil.Process(pid).create_time(); when that raises, the
\* file stays empty.  When open itself raises (io false) nothing is written.
\* Either exception is logged and save_pid returns normally.
save_pid(reg, pt, t, p, io) ==
    IF ~io THEN reg
    ELSE IF NoSuchProcess(pt, p)
    THEN [reg EXCEPT ![t] = BadFile]
    ELSE [reg EXCEPT ![t] = PidFile(p, pt[p].start)]

\* get_pid that makes up a pid when it has none to return
get_pid_guess(reg, t) ==
    IF reg[t].kind = "ok" THEN reg[t].pid ELSE 1

\* get_pid: None when the file is missing or unreadable, else data['pid']
get_pid(reg, t) ==
    IF reg[t].kind = "ok" THEN reg[t].pid ELSE NoPid

\* remove_pid_file that forgets to unlink the file
remove_pid_file_keeps(reg, t) == reg

\* remove_pid_file: unlink if the file exists
remove_pid_file(reg, t) ==
    IF reg[t].kind = "absent" THEN reg ELSE [reg EXCEPT ![t] = NoFile]

\* ------------------------------------------------------- OS process table
\* access: what the OS lets the service do with the process.  A trainer is
\* the service's own process ("full"); a process of another user refuses
\* its signals and may refuse its queries ("nosignal").
Access == {"full", "nosignal"}
FreeSlot == [state |-> "free", owner |-> NOTASK, start |-> 0, sig |-> "none",
             access |-> "full"]

\* the OS may refuse a query about a process that is not the service's own
QueryMayBeDenied(pt, p) == pt[p].state # "free" /\ pt[p].access # "full"

\* is_process_running that takes a zombie for a running process
is_process_running_zombie(pt, p, allowed) == allowed /\ pt[p].state # "free"

\* is_process_running: alive and not a zombie; NoSuchProcess and AccessDenied
\* -> False.  allowed: the OS answers the query (it raises no AccessDenied).
is_process_running(pt, p, allowed) == allowed /\ pt[p].state = "alive"

\* a signal to the process raises AccessDenied
AccessDenied(pt, p) == pt[p].state # "free" /\ pt[p].access # "full"

\* os.kill as psutil's send_signal does it: the signal is queued for the
\* target; SIGKILL is not replaced by a later SIGTERM.
send_signal(pt, p, sg) ==
    IF pt[p].state = "alive" /\ pt[p].sig # "kill"
    THEN [pt EXCEPT ![p].sig = sg]
    ELSE pt

\* the process a psutil.Process object (pid, create_time) was made for
SameProcess(pt, p, st) == pt[p].state # "free" /\ pt[p].start = st

\* -------------------------------------------------------------------- Init
NoResp == [op |-> "none", code |-> 0]

IdleLaunch == [pc |-> "idle", task |-> 0, pid |-> NoPid, failed |-> "none",
               ret |-> FALSE]

IdleStop == [pc |-> "idle", task |-> 0, force |-> FALSE, via |-> "none",
             pid |-> NoPid, start |-> 0, ret |-> FALSE,
             hadFile |-> FALSE, timedout |-> FALSE,
             second |-> FALSE, overlap |-> FALSE, live |-> FALSE,
             how |-> "none"]

\* get_task_status: no call under way.  denied: the OS refused the liveness
\* query of the call.
IdleQuery == [pc |-> "idle", task |-> 0, pid |-> NoPid, denied |-> FALSE,
              has_process |-> FALSE, is_running |-> FALSE]

Init ==
    /\ status = [t \in Tasks |-> NOROW]
    /\ error_message = [t \in Tasks |-> ""]
    /\ refs = [t \in Tasks |-> FALSE]
    /\ registry = [t \in Tasks |-> NoFile]
    /\ proc = [p \in Pids |-> FreeSlot]
    /\ clock = 0
    /\ launch = [l \in Launchers |-> IdleLaunch]
    /\ stop = [s \in Stoppers |-> IdleStop]
    /\ resp = NoResp
    /\ lastStop = [t \in Tasks |-> FALSE]
    /\ query = IdleQuery
    /\ training_config = [t \in Tasks |-> NoConfig]
    /\ lora = [complexity |-> "", config |-> NoLora]
    /\ config_file = [t \in Tasks |-> NoConfigFile]

HasRow(t) == status[t] \in TaskStatus

\* a launch of task t that has started and not returned
Launching(l, t) ==
    launch[l].task = t /\ launch[l].pc \notin {"idle", "done", "over"}
\* a stop_process call for task t that has started and not returned
Stopping(s, t) ==
    stop[s].task = t /\ stop[s].pc \notin {"idle", "ret", "over"}

\* bookkeeping: a launch of task t begins, so a stop_process call in flight
\* for t is no longer the second of two in a row
Unsucceed(sf, t) ==
    [s \in Stoppers |->
        IF sf[s].task = t THEN [sf[s] EXCEPT !.second = FALSE] ELSE sf[s]]

\* ------------------------------------------- training_runner.py: launcher
\* A launch runs in a thread of its own; the launches are numbered in the
\* order they begin.
MayStartLaunch(l) ==
    /\ launch[l].pc = "idle"
    /\ \A k \in Launchers : k < l => launch[k].pc # "idle"

ModelOrDatasetNotFound == "Model or dataset not found"
\* str(e) of the exception raised by a step of the launcher
ErrorText(step) == step

\* a launcher that does not look for the task's model and dataset
start_training_task_begin_norefs(l, t) ==
    /\ MayStartLaunch(l)
    /\ IF ~HasRow(t)
       THEN /\ launch' = [launch EXCEPT ![l] =
                   [IdleLaunch EXCEPT !.task = t, !.pc = "done"]]
            /\ UNCHANGED <<status, error_message>>
       ELSE /\ status' = [status EXCEPT ![t] = RUNNING]
            /\ launch' = [launch EXCEPT ![l] =
                   [IdleLaunch EXCEPT !.task = t, !.pc = "prepare"]]
            /\ UNCHANGED error_message
    /\ stop' = Unsucceed(stop, t)
    /\ lastStop' = [lastStop EXCEPT ![t] = FALSE]
    /\ UNCHANGED <<refs, training_config, registry, proc, clock, resp, query, lora, config_file>>

\* lines 29-50: load the task, its model and dataset; commit RUNNING
start_training_task_begin(l, t) ==
    /\ MayStartLaunch(l)
    /\ IF ~HasRow(t)
       THEN /\ launch' = [launch EXCEPT ![l] =
                   [IdleLaunch EXCEPT !.task = t, !.pc = "done"]]
            /\ UNCHANGED <<status, error_message>>
       ELSE IF ~refs[t]
       THEN /\ status' = [status EXCEPT ![t] = FAILED]
            /\ error_message' = [error_message EXCEPT ![t] = ModelOrDatasetNotFound]
            /\ launch' = [launch EXCEPT ![l] =
                   [IdleLaunch EXCEPT !.task = t, !.pc = "done", !.failed = "refs"]]
       ELSE /\ status' = [status EXCEPT ![t] = RUNNING]
            /\ launch' = [launch EXCEPT ![l] =
                   [IdleLaunch EXCEPT !.task = t, !.pc = "prepare"]]
            /\ UNCHANGED error_message
    /\ stop' = Unsucceed(stop, t)
    /\ lastStop' = [lastStop EXCEPT ![t] = FALSE]
    /\ UNCHANGED <<refs, training_config, registry, proc, clock, resp, query, lora, config_file>>

\* lines 130-142: the except handler; marks the task FAILED if it still has
\* a row and returns False
LaunchFailed(l, step) ==
    LET t == launch[l].task IN
    /\ status' = IF HasRow(t) THEN [status EXCEPT ![t] = FAILED] ELSE status
    /\ error_message' = IF HasRow(t)
                        THEN [error_message EXCEPT ![t] = ErrorText(step)]
                        ELSE error_message
    /\ launch' = [launch EXCEPT ![l].pc = "done", ![l].ret = FALSE,
                                ![l].failed = step]

\* lines 78-80: open(config_file, 'w') and json.dump: the file of the task's
\* output directory is created or truncated and holds what this launch wrote
write_config_file(cf, t, l) == [cf EXCEPT ![t] = l]

\* lines 52-80: output directory and training_config.json; when makedirs or
\* open raises, nothing is written
start_training_task_prepare(l, ok) ==
    /\ launch[l].pc = "prepare"
    /\ IF ok
       THEN /\ launch' = [launch EXCEPT ![l].pc = "spawn"]
            /\ config_file' = write_config_file(config_file, launch[l].task, l)
            /\ UNCHANGED <<status, error_message>>
       ELSE /\ LaunchFailed(l, "prepare")
            /\ UNCHANGED config_file
    /\ UNCHANGED <<refs, training_config, registry, proc, clock, stop, resp, lastStop, query, lora>>

\* lines 82-119: subprocess.Popen; the OS picks a free pid
start_training_task_spawn(l, p, ok) ==
    /\ launch[l].pc = "spawn"
    /\ IF ok
       THEN /\ proc[p].state = "free"
            /\ clock < MaxProc
            /\ proc' = [proc EXCEPT ![p] =
                   [state |-> "alive", owner |-> launch[l].task,
                    start |-> clock + 1, sig |-> "none", access |-> "full"]]
            /\ clock' = clock + 1
            /\ launch' = [launch EXCEPT ![l].pc = "save", ![l].pid = p]
            /\ UNCHANGED <<status, error_message>>
       ELSE /\ p = 1
            /\ LaunchFailed(l, "spawn")
            /\ UNCHANGED <<proc, clock>>
    /\ UNCHANGED <<refs, training_config, registry, stop, resp, lastStop, query, lora, config_file>>

\* lines 121-128: ProcessManager.save_pid, then return True
start_training_task_save(l, io) ==
    LET t == launch[l].task
        p == launch[l].pid
    IN
    /\ launch[l].pc = "save"
    /\ registry' = save_pid(registry, proc, t, p, io)
    /\ launch' = [launch EXCEPT ![l].pc = "done", ![l].ret = TRUE,
                     ![l].failed = IF io /\ ~NoSuchProcess(proc, p)
                                   THEN "none" ELSE "save"]
    /\ UNCHANGED <<status, error_message, refs, training_config, proc, clock, stop, resp, lastStop, query, lora, config_file>>

\* the launcher thread ends with the value start_training_task returned
start_training_task_return(l) ==
    /\ launch[l].pc = "done"
    /\ launch' = [launch EXCEPT ![l] = [IdleLaunch EXCEPT !.pc = "over"]]
    /\ UNCHANGED <<status, error_message, refs, training_config, registry, proc, clock, stop, resp, lastStop, query, lora, config_file>>

\* ------------------------------------------------------ the OS, trainers
\* a running process ends: the trainer finishes (trainer.py sys.exit), or a
\* queued signal takes effect; its parent has not collected it yet
ProcessExit(p) ==
    /\ proc[p].state = "alive"
    /\ proc' = [proc EXCEPT ![p].state = "zombie"]
    /\ UNCHANGED <<status, error_message, refs, training_config, registry, clock, launch, stop, resp, lastStop, query, lora, config_file>>

\* the exited process is collected and its pid becomes free again: by a wait
\* of its parent, by init once the worker that spawned it is gone, or at once
\* where an exited process leaves nothing behind
ProcessReaped(p) ==
    /\ proc[p].state = "zombie"
    /\ proc' = [proc EXCEPT ![p] = FreeSlot]
    /\ UNCHANGED <<status, error_message, refs, training_config, registry, clock, launch, stop, resp, lastStop, query, lora, config_file>>

\* some other program starts and is given a free pid
OtherProcessStarts(p, a) ==
    /\ proc[p].state = "free"
    /\ clock < MaxProc
    /\ proc' = [proc EXCEPT ![p] =
           [state |-> "alive", owner |-> NOTASK, start |-> clock + 1,
            sig |-> "none", access |-> a]]
    /\ clock' = clock + 1
    /\ UNCHANGED <<status, error_message, refs, training_config, registry, launch, stop, resp, lastStop, query, lora, config_file>>

\* ---------------------------------- process_manager.py: stop_process
\* the stop_process calls are numbered in the order they begin
MayStartStop(s) ==
    /\ stop[s].pc = "idle"
    /\ \A k \in Stoppers : k < s => stop[k].pc # "idle"

\* the call that now starts follows a finished stop(t, force=False) that found
\* a pid file, with no launch of t and no other stop of t since or meanwhile
IsSecond(t, f) ==
    /\ ~f
    /\ lastStop[t]
    /\ ~\E k \in Stoppers : Stopping(k, t)
    /\ ~\E l \in Launchers : Launching(l, t)

\* the registry names a pid for t and that process is running
TrackedLive(t) ==
    /\ get_pid(registry, t) # NoPid
    /\ is_process_running(proc, get_pid(registry, t), TRUE)

\* a stop_process(t, f) call begins, made by `via` (a direct caller, stop_task,
\* or delete_task for a task it read as RUNNING or as PENDING).  Bookkeeping: whether it
\* is the second of two in a row, whether t's tracked process is running as
\* it begins (live), and whether it overlaps another call for t, both having
\* begun with t's tracked process running (overlap).
BeginStop(s, t, f, via) ==
    [k \in Stoppers |->
        IF k = s
        THEN [IdleStop EXCEPT !.pc = "get", !.task = t, !.force = f,
                              !.via = via, !.second = IsSecond(t, f),
                              !.live = TrackedLive(t),
                              !.overlap = /\ TrackedLive(t)
                                          /\ \E j \in Stoppers :
                                                Stopping(j, t) /\ stop[j].live]
        ELSE IF Stopping(k, t)
        THEN [stop[k] EXCEPT !.second = FALSE,
                             !.overlap = \/ stop[k].overlap
                                         \/ stop[k].live /\ TrackedLive(t)]
        ELSE stop[k]]

\* a stop_process that reports success whatever happened
ReturnStop_success(me, r) == [me EXCEPT !.pc = "ret", !.ret = TRUE]

\* stop_process returns r
ReturnStop(me, r) == [me EXCEPT !.pc = "ret", !.ret = r]

\* bookkeeping at the return of a stop_process call
NoteStop(me) == [lastStop EXCEPT ![me.task] = ~me.force /\ me.hadFile]

\* ProcessManager.stop_process called directly
stop_process(s, t, f) ==
    /\ MayStartStop(s)
    /\ stop' = BeginStop(s, t, f, "pm")
    /\ UNCHANGED <<status, error_message, refs, training_config, registry, proc, clock, launch, resp, lastStop, query, lora, config_file>>

\* a stop_process that takes an unreadable pid file for a finished process
stop_process_get_exists(s) ==
    LET t == stop[s].task
        p == get_pid(registry, t)
        me == [stop[s] EXCEPT !.pid = p,
                              !.hadFile = registry[t].kind # "absent",
                              !.how = IF p = NoPid THEN "nopid" ELSE "none"]
    IN
    /\ stop[s].pc = "get"
    /\ stop' = [stop EXCEPT ![s] =
          IF p = NoPid THEN ReturnStop(me, registry[t].kind = "corrupt")
                       ELSE [me EXCEPT !.pc = "check"]]
    /\ lastStop' = IF p = NoPid THEN NoteStop(me) ELSE lastStop
    /\ UNCHANGED <<status, error_message, refs, training_config, registry, proc, clock, launch, resp, query, lora, config_file>>

\* lines 137-140: pid = get_pid(task_id); no pid -> return False
stop_process_get(s) ==
    LET t == stop[s].task
        p == get_pid(registry, t)
        me == [stop[s] EXCEPT !.pid = p,
                              !.hadFile = registry[t].kind # "absent",
                              !.how = IF p = NoPid THEN "nopid" ELSE "none"]
    IN
    /\ stop[s].pc = "get"
    /\ stop' = [stop EXCEPT ![s] =
          IF p = NoPid THEN ReturnStop(me, FALSE)
                       ELSE [me EXCEPT !.pc = "check"]]
    /\ lastStop' = IF p = NoPid THEN NoteStop(me) ELSE lastStop
    /\ UNCHANGED <<status, error_message, refs, training_config, registry, proc, clock, launch, resp, query, lora, config_file>>

\* a stop_process whose liveness test is process.is_running() alone, without
\* the zombie test
stop_process_check_exists(s, allowed) ==
    LET p == stop[s].pid
        running == allowed /\ proc[p].state # "free"
    IN
    /\ stop[s].pc = "check"
    /\ allowed \/ QueryMayBeDenied(proc, p)
    /\ stop' = [stop EXCEPT
          ![s].pc = IF running THEN "signal" ELSE "rmdead",
          ![s].how = IF running THEN "none"
                     ELSE IF allowed THEN "dead" ELSE "querydenied",
          ![s].start = proc[p].start]
    /\ UNCHANGED <<status, error_message, refs, training_config, registry, proc, clock, launch, resp, lastStop, query, lora, config_file>>

\* line 142: is_process_running(pid)
stop_process_check(s, allowed) ==
    LET p == stop[s].pid
        running == is_process_running(proc, p, allowed)
    IN
    /\ stop[s].pc = "check"
    /\ allowed \/ QueryMayBeDenied(proc, p)
    /\ stop' = [stop EXCEPT
          ![s].pc = IF running THEN "signal" ELSE "rmdead",
          ![s].how = IF running THEN "none"
                     ELSE IF allowed THEN "dead" ELSE "querydenied",
          ![s].start = proc[p].start]
    /\ UNCHANGED <<status, error_message, refs, training_config, registry, proc, clock, launch, resp, lastStop, query, lora, config_file>>

\* a stop_process that terminates gracefully first even when forced
stop_process_signal_graceful(s) ==
    LET p == stop[s].pid IN
    /\ stop[s].pc = "signal"
    /\ IF NoSuchProcess(proc, p) \/ AccessDenied(proc, p)
       THEN /\ stop' = [stop EXCEPT ![s].pc = "rmfail",
                  ![s].how = IF NoSuchProcess(proc, p) THEN "NoSuchProcess"
                                                      ELSE "AccessDenied",
                  ![s].start = proc[p].start]
            /\ UNCHANGED proc
       ELSE /\ proc' = send_signal(proc, p, "term")
            /\ stop' = [stop EXCEPT ![s].pc = "wait", ![s].how = "term",
                                    ![s].start = proc[p].start]
    /\ UNCHANGED <<status, error_message, refs, training_config, registry, clock, launch, resp, lastStop, query, lora, config_file>>

\* lines 147-157: psutil.Process(pid), then kill() or terminate()
stop_process_signal(s) ==
    LET p == stop[s].pid
        sg == IF stop[s].force THEN "kill" ELSE "term"
    IN
    /\ stop[s].pc = "signal"
    /\ IF NoSuchProcess(proc, p) \/ AccessDenied(proc, p)
       THEN /\ stop' = [stop EXCEPT ![s].pc = "rmfail",
                  ![s].how = IF NoSuchProcess(proc, p) THEN "NoSuchProcess"
                                                      ELSE "AccessDenied",
                  ![s].start = proc[p].start]
            /\ UNCHANGED proc
       ELSE /\ proc' = send_signal(proc, p, sg)
            /\ stop' = [stop EXCEPT
                  ![s].pc = IF stop[s].force THEN "rmok" ELSE "wait",
                  ![s].how = sg,
                  ![s].start = proc[p].start]
    /\ UNCHANGED <<status, error_message, refs, training_config, registry, clock, launch, resp, lastStop, query, lora, config_file>>

\* lines 160-163: process.wait(timeout=5).  It returns once the process has
\* ended (collecting it when it is the caller's child) and raises
\* TimeoutExpired while the process is still there.
stop_process_wait(s, timeout) ==
    LET p == stop[s].pid
        same == SameProcess(proc, p, stop[s].start)
    IN
    /\ stop[s].pc = "wait"
    /\ IF timeout
       THEN /\ same
            /\ stop' = [stop EXCEPT ![s].pc = "kill", ![s].timedout = TRUE]
            /\ UNCHANGED proc
       ELSE /\ ~(same /\ proc[p].state = "alive")
            /\ proc' = IF same THEN [proc EXCEPT ![p] = FreeSlot] ELSE proc
            /\ stop' = [stop EXCEPT ![s].pc = "rmok"]
    /\ UNCHANGED <<status, error_message, refs, training_config, registry, clock, launch, resp, lastStop, query, lora, config_file>>

\* a stop_process that returns right after the kill of the escalation and
\* leaves the pid file
stop_process_kill_leaves(s) ==
    LET p == stop[s].pid IN
    /\ stop[s].pc = "kill"
    /\ IF SameProcess(proc, p, stop[s].start)
       THEN /\ proc' = send_signal(proc, p, "kill")
            /\ stop' = [stop EXCEPT ![s] =
                   ReturnStop([stop[s] EXCEPT !.how = "kill"], TRUE)]
       ELSE /\ stop' = [stop EXCEPT ![s].pc = "rmfail",
                                    ![s].how = "NoSuchProcess"]
            /\ UNCHANGED proc
    /\ UNCHANGED <<status, error_message, refs, training_config, registry, clock, launch, resp, lastStop, query, lora, config_file>>

\* line 164: process.kill() after the timeout; NoSuchProcess when the process
\* the object was made for is gone
stop_process_kill(s) ==
    LET p == stop[s].pid IN
    /\ stop[s].pc = "kill"
    /\ IF SameProcess(proc, p, stop[s].start)
       THEN /\ proc' = send_signal(proc, p, "kill")
            /\ stop' = [stop EXCEPT ![s].pc = "rmok", ![s].how = "kill"]
       ELSE /\ stop' = [stop EXCEPT ![s].pc = "rmfail",
                                    ![s].how = "NoSuchProcess"]
            /\ UNCHANGED proc
    /\ UNCHANGED <<status, error_message, refs, training_config, registry, clock, launch, resp, lastStop, query, lora, config_file>>

\* a stop_process that counts only a signal it delivered as success
stop_process_remove_strict(s) ==
    /\ stop[s].pc \in {"rmdead", "rmok", "rmfail"}
    /\ registry' = remove_pid_file(registry, stop[s].task)
    /\ stop' = [stop EXCEPT ![s] = ReturnStop(stop[s], stop[s].pc = "rmok")]
    /\ lastStop' = NoteStop(stop[s])
    /\ UNCHANGED <<status, error_message, refs, training_config, proc, clock, launch, resp, query, lora, config_file>>

\* lines 144-145, 167-169, 173-174: remove_pid_file(task_id) and return
stop_process_remove(s) ==
    /\ stop[s].pc \in {"rmdead", "rmok", "rmfail"}
    /\ registry' = remove_pid_file(registry, stop[s].task)
    /\ stop' = [stop EXCEPT ![s] = ReturnStop(stop[s], stop[s].pc # "rmfail")]
    /\ lastStop' = NoteStop(stop[s])
    /\ UNCHANGED <<status, error_message, refs, training_config, proc, clock, launch, resp, query, lora, config_file>>

\* the direct caller of stop_process has its result
stop_process_return(s) ==
    /\ stop[s].pc = "ret"
    /\ stop[s].via = "pm"
    /\ stop' = [stop EXCEPT ![s] = [IdleStop EXCEPT !.pc = "over"]]
    /\ UNCHANGED <<status, error_message, refs, training_config, registry, proc, clock, launch, resp, lastStop, query, lora, config_file>>

\* ------------------------------- process_manager.py: get_task_status
\* lines 187-193: pid = get_pid(task_id); no pid -> has_process False
get_task_status(t) ==
    LET p == get_pid(registry, t) IN
    /\ query.pc = "idle"
    /\ query' = [IdleQuery EXCEPT !.pc = IF p = NoPid THEN "got" ELSE "check",
                                  !.task = t, !.pid = p]
    /\ UNCHANGED <<status, error_message, refs, training_config, registry, proc, clock,
                   launch, stop, resp, lastStop, lora, config_file>>

\* a get_task_status that removes the record of a process it finds not
\* running
get_task_status_check_cleans(allowed) ==
    LET running == is_process_running(proc, query.pid, allowed) IN
    /\ query.pc = "check"
    /\ allowed \/ QueryMayBeDenied(proc, query.pid)
    /\ query' = [query EXCEPT
          !.pc = "got", !.has_process = TRUE, !.denied = ~allowed,
          !.is_running = running]
    /\ registry' = IF running THEN registry
                   ELSE remove_pid_file(registry, query.task)
    /\ UNCHANGED <<status, error_message, refs, training_config, proc, clock,
                   launch, stop, resp, lastStop, lora, config_file>>

\* lines 195-208: is_running = is_process_running(pid); the result carries
\* has_process True, is_running and the pid (with the figures of
\* get_process_info added while the process runs)
get_task_status_check(allowed) ==
    /\ query.pc = "check"
    /\ allowed \/ QueryMayBeDenied(proc, query.pid)
    /\ query' = [query EXCEPT
          !.pc = "got", !.has_process = TRUE, !.denied = ~allowed,
          !.is_running = is_process_running(proc, query.pid, allowed)]
    /\ UNCHANGED <<status, error_message, refs, training_config, registry, proc, clock,
                   launch, stop, resp, lastStop, lora, config_file>>

\* the caller has the result
get_task_status_return ==
    /\ query.pc = "got"
    /\ query' = IdleQuery
    /\ UNCHANGED <<status, error_message, refs, training_config, registry, proc, clock,
                   launch, stop, resp, lastStop, lora, config_file>>

\* ------------------------------------------------ routers: task requests
Callers == {"owner", "admin", "stranger"}
\* backend.common.auth.check_resource_owner: the owner or an admin
check_resource_owner(c) == c \in {"owner", "admin"}

Response(op, code) == [op |-> op, code |-> code]

\* the checks of a request that leaves out the permission check
Refused_lax(t, c) ==
    IF ~HasRow(t) THEN 404 ELSE 0

\* the checks every task request starts with: 404, then 403
Refused(t, c) ==
    IF ~HasRow(t) THEN 404 ELSE IF ~check_resource_owner(c) THEN 403 ELSE 0

\* db.delete(task); db.commit()
DropRow(t) ==
    /\ status' = [status EXCEPT ![t] = DELETED]
    /\ error_message' = [error_message EXCEPT ![t] = ""]
    /\ refs' = [refs EXCEPT ![t] = FALSE]
    /\ training_config' = [training_config EXCEPT ![t] = NoConfig]

\* tasks.py create_task: ids are handed out in order; the model and the
\* dataset were found, the LoRA parameters are derived from the tier of the
\* request and the row is stored PENDING
create_task(t, complexity) ==
    /\ status[t] = NOROW
    /\ \A k \in Tasks : k < t => status[k] # NOROW
    /\ status' = [status EXCEPT ![t] = PENDING]
    /\ refs' = [refs EXCEPT ![t] = TRUE]
    /\ training_config' = [training_config EXCEPT ![t] = NewTaskConfig(complexity)]
    /\ resp' = Response("create", 201)
    /\ UNCHANGED <<error_message, registry, proc, clock, launch, stop, lastStop, query, lora, config_file>>

\* config.py get_lora_config called with any string
get_lora_config_call(complexity) ==
    /\ lora' = [complexity |-> complexity, config |-> get_lora_config(complexity)]
    /\ UNCHANGED <<status, error_message, refs, training_config, registry, proc,
                   clock, launch, stop, resp, lastStop, query, config_file>>

\* models.py delete_model / datasets.py delete_dataset: the row a task
\* refers to is deleted (the task's reference becomes NULL)
delete_model(t) ==
    /\ HasRow(t)
    /\ refs[t]
    /\ refs' = [refs EXCEPT ![t] = FALSE]
    /\ UNCHANGED <<status, error_message, training_config, registry, proc, clock, launch, stop, resp, lastStop, query, lora, config_file>>

\* tasks.py update_task: TaskUpdate may carry a status; every field that is
\* set is written to the row
Unset == "unset"
update_task(t, st, c) ==
    /\ IF Refused(t, c) # 0
       THEN /\ resp' = Response("update", Refused(t, c))
            /\ UNCHANGED status
       ELSE /\ status' = IF st = Unset THEN status ELSE [status EXCEPT ![t] = st]
            /\ resp' = Response("update", 200)
    /\ UNCHANGED <<error_message, refs, training_config, registry, proc, clock, launch, stop, lastStop, query, lora, config_file>>

\* a cancel_task without the status test
cancel_task_any(t, c) ==
    /\ IF Refused(t, c) # 0
       THEN /\ resp' = Response("cancel", Refused(t, c))
            /\ UNCHANGED status
       ELSE /\ status' = [status EXCEPT ![t] = CANCELLED]
            /\ resp' = Response("cancel", 200)
    /\ UNCHANGED <<error_message, refs, training_config, registry, proc, clock, launch, stop, lastStop, query, lora, config_file>>

\* tasks.py cancel_task
cancel_task(t, c) ==
    /\ IF Refused(t, c) # 0
       THEN /\ resp' = Response("cancel", Refused(t, c))
            /\ UNCHANGED status
       ELSE IF status[t] \notin {PENDING, QUEUED, RUNNING}
       THEN /\ resp' = Response("cancel", 400)
            /\ UNCHANGED status
       ELSE /\ status' = [status EXCEPT ![t] = CANCELLED]
            /\ resp' = Response("cancel", 200)
    /\ UNCHANGED <<error_message, refs, training_config, registry, proc, clock, launch, stop, lastStop, query, lora, config_file>>

\* a delete_task without the RUNNING test
delete_task_any(t, c) ==
    /\ IF Refused(t, c) # 0
       THEN /\ resp' = Response("delete", Refused(t, c))
            /\ UNCHANGED <<status, error_message, refs, training_config>>
       ELSE /\ DropRow(t)
            /\ resp' = Response("delete", 200)
    /\ UNCHANGED <<registry, proc, clock, launch, stop, lastStop, query, lora, config_file>>

\* tasks.py delete_task
delete_task(t, c) ==
    /\ IF Refused(t, c) # 0
       THEN /\ resp' = Response("delete", Refused(t, c))
            /\ UNCHANGED <<status, error_message, refs, training_config>>
       ELSE IF status[t] = RUNNING
       THEN /\ resp' = Response("delete", 400)
            /\ UNCHANGED <<status, error_message, refs, training_config>>
       ELSE /\ DropRow(t)
            /\ resp' = Response("delete", 200)
    /\ UNCHANGED <<registry, proc, clock, launch, stop, lastStop, query, lora, config_file>>

\* a stop_task without the status test
stop_task_any(s, t, f, c) ==
    /\ IF Refused(t, c) # 0
       THEN /\ resp' = Response("stop", Refused(t, c))
            /\ UNCHANGED stop
       ELSE /\ MayStartStop(s)
            /\ stop' = BeginStop(s, t, f, "stop_task")
            /\ resp' = Response("stop", 0)
    /\ UNCHANGED <<status, error_message, refs, training_config, registry, proc, clock, launch, lastStop, query, lora, config_file>>

\* tasks_management.py stop_task, lines 31-55: up to the stop_process call
stop_task(s, t, f, c) ==
    /\ IF Refused(t, c) # 0
       THEN /\ resp' = Response("stop", Refused(t, c))
            /\ UNCHANGED stop
       ELSE IF status[t] \notin {PENDING, RUNNING}
       THEN /\ resp' = Response("stop", 400)
            /\ UNCHANGED stop
       ELSE /\ MayStartStop(s)
            /\ stop' = BeginStop(s, t, f, "stop_task")
            /\ resp' = Response("stop", 0)
    /\ UNCHANGED <<status, error_message, refs, training_config, registry, proc, clock, launch, lastStop, query, lora, config_file>>

\* tasks_management.py stop_task, lines 57-86: whatever stop_process
\* returned, the task is set CANCELLED and committed
stop_task_finish(s) ==
    LET t == stop[s].task IN
    /\ stop[s].pc = "ret"
    /\ stop[s].via = "stop_task"
    /\ IF HasRow(t)
       THEN /\ status' = [status EXCEPT ![t] = CANCELLED]
            /\ resp' = Response("stop", 200)
       ELSE /\ resp' = Response("stop", 500)
            /\ UNCHANGED status
    /\ stop' = [stop EXCEPT ![s] = [IdleStop EXCEPT !.pc = "over"]]
    /\ UNCHANGED <<error_message, refs, training_config, registry, proc, clock, launch, lastStop, query, lora, config_file>>

\* tasks_management.py delete_task, lines 110-136: a RUNNING or PENDING task
\* needs force and is stopped with force=True first
delete_task_force(s, t, f, c) ==
    /\ IF Refused(t, c) # 0
       THEN /\ resp' = Response("delete_force", Refused(t, c))
            /\ UNCHANGED <<status, error_message, refs, training_config, stop>>
       ELSE IF status[t] \in {RUNNING, PENDING} /\ ~f
       THEN /\ resp' = Response("delete_force", 400)
            /\ UNCHANGED <<status, error_message, refs, training_config, stop>>
       ELSE IF status[t] \in {RUNNING, PENDING}
       THEN /\ MayStartStop(s)
            /\ stop' = BeginStop(s, t, TRUE, IF status[t] = RUNNING
                                              THEN "delete_running"
                                              ELSE "delete_pending")
            /\ resp' = Response("delete_force", 0)
            /\ UNCHANGED <<status, error_message, refs, training_config>>
       ELSE /\ DropRow(t)
            /\ resp' = Response("delete_force", 200)
            /\ UNCHANGED stop
    /\ UNCHANGED <<registry, proc, clock, launch, lastStop, query, lora, config_file>>

\* tasks_management.py delete_task, lines 138-148: delete the row
delete_task_finish(s) ==
    LET t == stop[s].task IN
    /\ stop[s].pc = "ret"
    /\ stop[s].via \in {"delete_running", "delete_pending"}
    /\ IF HasRow(t)
       THEN /\ DropRow(t)
            /\ resp' = Response("delete_force", 200)
       ELSE /\ resp' = Response("delete_force", 500)
            /\ UNCHANGED <<status, error_message, refs, training_config>>
    /\ stop' = [stop EXCEPT ![s] = [IdleStop EXCEPT !.pc = "over"]]
    /\ UNCHANGED <<registry, proc, clock, launch, lastStop, query, lora, config_file>>

\* ---------------------------------------------------------- specifications
\* the launcher threads L, launching tasks T, the OS handing out pids P
Launch(L, T, P) ==
    \/ \E l \in L, t \in T : start_training_task_begin(l, t)
    \/ \E l \in L, ok \in BOOLEAN : start_training_task_prepare(l, ok)
    \/ \E l \in L, p \in P, ok \in BOOLEAN : start_training_task_spawn(l, p, ok)
    \/ \E l \in L, io \in BOOLEAN : start_training_task_save(l, io)
    \/ \E l \in L : start_training_task_return(l)

\* the steps of the stop_process calls S that have begun
StopSteps(S) ==
    \/ \E s \in S : stop_process_get(s)
    \/ \E s \in S, allowed \in BOOLEAN : stop_process_check(s, allowed)
    \/ \E s \in S : stop_process_signal(s)
    \/ \E s \in S, timeout \in BOOLEAN : stop_process_wait(s, timeout)
    \/ \E s \in S : stop_process_kill(s)
    \/ \E s \in S : stop_process_remove(s)

\* the operating system, with pids P
System(P) ==
    \/ \E p \in P : ProcessExit(p)
    \/ \E p \in P : ProcessReaped(p)
    \/ \E p \in P, a \in Access : OtherProcessStarts(p, a)

\* the task requests of the two routers, on tasks T; S are the stop_process
\* calls they can make
Requests(T, S) ==
    \/ \E t \in T, st \in TaskStatus \cup {Unset}, c \in Callers : update_task(t, st, c)
    \/ \E t \in T, c \in Callers : cancel_task(t, c)
    \/ \E t \in T, c \in Callers : delete_task(t, c)
    \/ \E s \in S, t \in T, f \in BOOLEAN, c \in Callers : stop_task(s, t, f, c)
    \/ \E s \in S : stop_task_finish(s)
    \/ \E s \in S, t \in T, f \in BOOLEAN, c \in Callers : delete_task_force(s, t, f, c)
    \/ \E s \in S : delete_task_finish(s)

\* The service as a whole: requests, launches, the OS.
Next ==
    \/ \E t \in 1..ApiTasks : create_task(t, L2_DOMAIN)
    \/ \E t \in 1..ApiTasks : delete_model(t)
    \/ Requests(1..ApiTasks, 1..ApiStops)
    \/ Launch(1..ApiLaunches, 1..ApiTasks, 1..ApiPids)
    \/ StopSteps(1..ApiStops)
    \/ System(1..ApiPids)

Spec == Init /\ [][Next]_vars

\* The process manager and the launcher: tasks are created and launched, and
\* ProcessManager.stop_process is called at any time, for any task id and by
\* any number of callers at once.  The requests are left out: what they do to
\* the registry and to processes they do through stop_process.
NextPM ==
    \/ \E t \in 1..PMTasks : create_task(t, L2_DOMAIN)
    \/ Launch(1..PMLaunches, 1..PMTasks, 1..PMPids)
    \/ \E s \in 1..PMStops, t \in 1..PMTasks, f \in BOOLEAN : stop_process(s, t, f)
    \/ StopSteps(1..PMStops)
    \/ \E s \in 1..PMStops : stop_process_return(s)
    \/ System(1..PMPids)

SpecPM == Init /\ [][NextPM]_vars

\* no launch and no stop_process call is under way
Quiet ==
    /\ \A l \in Launchers : launch[l].pc \in {"idle", "over"}
    /\ \A s \in Stoppers : stop[s].pc \in {"idle", "over"}
    /\ query.pc = "idle"

\* The process manager and the launcher under one caller: a launch or a
\* stop_process call begins only when the one before it has returned, while
\* the processes and the OS move at any time.
NextSeq ==
    \/ \E t \in 1..SeqTasks : create_task(t, L2_DOMAIN)
    \/ Quiet /\ \E l \in 1..SeqLaunches, t \in 1..SeqTasks :
                    start_training_task_begin(l, t)
    \/ \E l \in 1..SeqLaunches, ok \in BOOLEAN : start_training_task_prepare(l, ok)
    \/ \E l \in 1..SeqLaunches, p \in 1..SeqPids, ok \in BOOLEAN :
          start_training_task_spawn(l, p, ok)
    \/ \E l \in 1..SeqLaunches, io \in BOOLEAN : start_training_task_save(l, io)
    \/ \E l \in 1..SeqLaunches : start_training_task_return(l)
    \/ Quiet /\ \E s \in 1..SeqStops, t \in 1..SeqTasks, f \in BOOLEAN :
                    stop_process(s, t, f)
    \/ StopSteps(1..SeqStops)
    \/ \E s \in 1..SeqStops : stop_process_return(s)
    \/ System(1..SeqPids)

SpecSeq == Init /\ [][NextSeq]_vars

\* The Process Controller under one caller: launches, stop_process calls and
\* get_task_status calls, one after the other, while the processes and the
\* OS move at any time.
NextCtl ==
    \/ \E t \in 1..CtlTasks : create_task(t, L2_DOMAIN)
    \/ Quiet /\ \E l \in 1..CtlLaunches, t \in 1..CtlTasks :
                    start_training_task_begin(l, t)
    \/ \E l \in 1..CtlLaunches, ok \in BOOLEAN : start_training_task_prepare(l, ok)
    \/ \E l \in 1..CtlLaunches, p \in 1..CtlPids, ok \in BOOLEAN :
          start_training_task_spawn(l, p, ok)
    \/ \E l \in 1..CtlLaunches, io \in BOOLEAN : start_training_task_save(l, io)
    \/ \E l \in 1..CtlLaunches : start_training_task_return(l)
    \/ Quiet /\ \E s \in 1..CtlStops, t \in 1..CtlTasks, f \in BOOLEAN :
                    stop_process(s, t, f)
    \/ StopSteps(1..CtlStops)
    \/ \E s \in 1..CtlStops : stop_process_return(s)
    \/ Quiet /\ \E t \in 1..CtlTasks : get_task_status(t)
    \/ \E allowed \in BOOLEAN : get_task_status_check(allowed)
    \/ get_task_status_return
    \/ System(1..CtlPids)

SpecCtl == Init /\ [][NextCtl]_vars

\* The task requests served one at a time: a request or a launch begins only
\* when the one before it is over, while the processes and the OS move at
\* any time.
NextReq ==
    \/ Quiet /\ \E t \in 1..ReqTasks : create_task(t, L2_DOMAIN)
    \/ Quiet /\ Requests(1..ReqTasks, 1..ReqStops)
    \/ Quiet /\ \E l \in 1..ReqLaunches, t \in 1..ReqTasks :
                    start_training_task_begin(l, t)
    \/ \E l \in 1..ReqLaunches, ok \in BOOLEAN : start_training_task_prepare(l, ok)
    \/ \E l \in 1..ReqLaunches, p \in 1..ReqPids, ok \in BOOLEAN :
          start_training_task_spawn(l, p, ok)
    \/ \E l \in 1..ReqLaunches, io \in BOOLEAN : start_training_task_save(l, io)
    \/ \E l \in 1..ReqLaunches : start_training_task_return(l)
    \/ StopSteps(1..ReqStops)
    \/ \E s \in 1..ReqStops : stop_task_finish(s)
    \/ \E s \in 1..ReqStops : delete_task_finish(s)
    \/ System(1..ReqPids)

SpecReq == Init /\ [][NextReq]_vars

\* Task creation: tasks of every tier are created and launched one after the
\* other, while the processes and the OS move at any time.  (The other
\* specifications create l2_domain tasks: the tier plays no part in what
\* happens to a task once it is stored.)
NextCfg ==
    \/ \E t \in 1..CfgTasks, cx \in TaskComplexity : create_task(t, cx)
    \/ Quiet /\ \E l \in 1..CfgLaunches, t \in 1..CfgTasks :
                    start_training_task_begin(l, t)
    \/ \E l \in 1..CfgLaunches, ok \in BOOLEAN : start_training_task_prepare(l, ok)
    \/ \E l \in 1..CfgLaunches, p \in 1..CfgPids, ok \in BOOLEAN :
          start_training_task_spawn(l, p, ok)
    \/ \E l \in 1..CfgLaunches, io \in BOOLEAN : start_training_task_save(l, io)
    \/ \E l \in 1..CfgLaunches : start_training_task_return(l)
    \/ System(1..CfgPids)

SpecCfg == Init /\ [][NextCfg]_vars

\* The launcher and the rows it loads: tasks are created, the model or the
\* dataset of a task may be deleted, and launches are made one after the
\* other for any task id, while the processes and the OS move at any time.
NextRefs ==
    \/ \E t \in 1..CfgTasks : create_task(t, L2_DOMAIN)
    \/ \E t \in 1..CfgTasks : delete_model(t)
    \/ Quiet /\ \E l \in 1..CfgLaunches, t \in 1..CfgTasks :
                    start_training_task_begin(l, t)
    \/ \E l \in 1..CfgLaunches, ok \in BOOLEAN : start_training_task_prepare(l, ok)
    \/ \E l \in 1..CfgLaunches, p \in 1..CfgPids, ok \in BOOLEAN :
          start_training_task_spawn(l, p, ok)
    \/ \E l \in 1..CfgLaunches, io \in BOOLEAN : start_training_task_save(l, io)
    \/ \E l \in 1..CfgLaunches : start_training_task_return(l)
    \/ System(1..CfgPids)

SpecRefs == Init /\ [][NextRefs]_vars

\* The tier mapping: get_lora_config is called with any string, by
\* create_task and directly, while the tasks' rows are updated, cancelled and
\* deleted.
NextTier ==
    \/ \E t \in 1..CfgTasks, cx \in TaskComplexity : create_task(t, cx)
    \/ \E cx \in TierStrings : get_lora_config_call(cx)
    \/ \E t \in 1..CfgTasks, st \in TaskStatus \cup {Unset}, c \in Callers :
          update_task(t, st, c)
    \/ \E t \in 1..CfgTasks, c \in Callers : cancel_task(t, c)
    \/ \E t \in 1..CfgTasks, c \in Callers : delete_task(t, c)

SpecTier == Init /\ [][NextTier]_vars

\* The process manager called for several task ids at once: launches,
\* stop_process calls and a get_task_status call for any of the tasks
\* interleave, the trainers ending at any time.
NextKey ==
    \/ \E t \in 1..KeyTasks : create_task(t, L2_DOMAIN)
    \/ Launch(1..KeyLaunches, 1..KeyTasks, 1..KeyPids)
    \/ \E s \in 1..KeyStops, t \in 1..KeyTasks, f \in BOOLEAN : stop_process(s, t, f)
    \/ StopSteps(1..KeyStops)
    \/ \E s \in 1..KeyStops : stop_process_return(s)
    \/ \E t \in 1..KeyTasks : get_task_status(t)
    \/ \E allowed \in BOOLEAN : get_task_status_check(allowed)
    \/ get_task_status_return
    \/ \E p \in 1..KeyPids : ProcessExit(p)
    \/ \E p \in 1..KeyPids : ProcessReaped(p)

SpecKey == Init /\ [][NextKey]_vars

\* The task requests served one at a time, with the scheduling the service
\* gives: a launcher thread that has begun runs on, a stop_process call under
\* way runs on and its request finishes, and an exited process is collected
\* in the end.  Nothing obliges anyone to send a request, and nothing obliges
\* a trainer to end.
LaunchRuns ==
    \/ \E l \in 1..ReqLaunches, ok \in BOOLEAN : start_training_task_prepare(l, ok)
    \/ \E l \in 1..ReqLaunches, p \in 1..ReqPids, ok \in BOOLEAN :
          start_training_task_spawn(l, p, ok)
    \/ \E l \in 1..ReqLaunches, io \in BOOLEAN : start_training_task_save(l, io)
    \/ \E l \in 1..ReqLaunches : start_training_task_return(l)
RequestRuns ==
    \/ StopSteps(1..ReqStops)
    \/ \E s \in 1..ReqStops : stop_task_finish(s)
    \/ \E s \in 1..ReqStops : delete_task_finish(s)
Collected == \E p \in 1..ReqPids : ProcessReaped(p)

SpecLive ==
    /\ SpecReq
    /\ WF_vars(LaunchRuns)
    /\ WF_vars(RequestRuns)
    /\ WF_vars(Collected)

\* ------------------------------------------------------------------ claims
\* step predicates: the call returns in this step
LaunchReturns(l) ==
    launch[l].pc \notin {"idle", "done", "over"} /\ launch'[l].pc = "done"
StopReturns(s) ==
    /\ stop[s].pc \notin {"idle", "ret", "over"}
    /\ stop'[s].pc = "ret"
\* the stop_process call s delivers a signal in this step
StopSignals(s) ==
    /\ stop[s].pc \in {"signal", "kill"}
    /\ stop'[s].pc \in {"wait", "rmok"}

\* C1: once a task's status is COMPLETED, FAILED or CANCELLED, no step changes
\* it to another status (the row may be removed).
C1_TerminalAbsorbing ==
    [][\A t \in Tasks :
          (status[t] \in Terminal /\ status'[t] \in TaskStatus)
             => status'[t] = status[t]]_vars

C3_ConcurrentStopsSucceed ==
    \A s \in Stoppers :
       (stop[s].pc = "ret" /\ stop[s].overlap /\ stop[s].live)
          => stop[s].ret

\* C4: when launch returns True, then right after the return get_pid gives
\* the pid of the process launch spawned and the task is RUNNING.
C4_LaunchTrueRecordsPid ==
    [][\A l \in Launchers :
          (LaunchReturns(l) /\ launch'[l].ret)
             => /\ get_pid(registry', launch[l].task) = launch[l].pid
                /\ status'[launch[l].task] = RUNNING]_vars

\* C5: launch records the pid before it sets the task RUNNING: in no state
\* has a launch set its task RUNNING without the pid being in the registry.
C5_PidBeforeRunning ==
    \A l \in Launchers :
       (launch[l].pc \in {"prepare", "spawn", "save"}
           /\ status[launch[l].task] = RUNNING)
          => (launch[l].pid # NoPid
              /\ get_pid(registry, launch[l].task) = launch[l].pid)

\* C6: when one of the steps 1-4 of launch fails (directory and config file,
\* spawn, recording the pid), launch returns False and leaves the task FAILED
\* with the error text.
C6_FailedLaunchMarksFailed ==
    [][\A l \in Launchers :
          (LaunchReturns(l) /\ launch'[l].failed \in {"prepare", "spawn", "save"}
              /\ HasRow(launch[l].task))
             => /\ ~launch'[l].ret
                /\ status'[launch[l].task] = FAILED
                /\ error_message'[launch[l].task] = ErrorText(launch'[l].failed)]_vars

\* C7: a stop request by the owner or an admin on a PENDING, QUEUED or
\* RUNNING task is accepted (stop_process is called), and when stop_process
\* has returned the request leaves the task CANCELLED.
C7_StopAcceptedWhenActive ==
    [][/\ \A s \in Stoppers, t \in Tasks, f \in BOOLEAN, c \in {"owner", "admin"} :
             (status[t] \in {PENDING, QUEUED, RUNNING} /\ MayStartStop(s)
                 /\ stop_task(s, t, f, c))
                => stop'[s].pc = "get"
       /\ \A s \in Stoppers :
             (stop_task_finish(s) /\ HasRow(stop[s].task))
                => status'[stop[s].task] = CANCELLED]_vars

\* C8: stop(task_id) signals only a trainer that launch spawned for that
\* task, never a process that got the recorded pid later.
C8_SignalsOnlyOwnTrainer ==
    [][\A s \in Stoppers :
          StopSignals(s) => proc[stop[s].pid].owner = stop[s].task]_vars

\* C9: a stop call that found a pid and whose process has ended by the time
\* the call returns (before or during the call) returns True.
C9_StopToleratesExit ==
    [][\A s \in Stoppers :
          (StopReturns(s) /\ stop[s].pid # NoPid
              /\ proc'[stop[s].pid].state # "alive")
             => stop'[s].ret]_vars

\* C10: a stop(id, force=False) whose wait timed out sends the forced
\* termination, returns True, and the process is dead when it returns.
C10_EscalationKills ==
    [][\A s \in Stoppers :
          (StopReturns(s) /\ stop[s].timedout)
             => /\ stop'[s].ret
                /\ ~(SameProcess(proc', stop[s].pid, stop[s].start)
                       /\ proc'[stop[s].pid].state = "alive")]_vars

\* step predicates: the get_task_status call begins / gets its result
StatusBegins == query.pc = "idle" /\ query'.pc # "idle"
StatusReturns == query.pc \in {"idle", "check"} /\ query'.pc = "got"
\* the stop_process call s reads the registry in this step
StopReads(s) == stop[s].pc = "get" /\ stop'[s].pc # "get"

\* C11: for a task id with no registry record, get_task_status returns
\* has_process False and stop_process returns False, forced or not, and
\* neither sends a signal nor changes the registry.
C11_NoRecord ==
    [][/\ \A s \in Stoppers :
             (StopReads(s) /\ registry[stop[s].task].kind = "absent")
                => /\ stop'[s].pc = "ret" /\ ~stop'[s].ret
                   /\ registry' = registry /\ proc' = proc
       /\ (StatusBegins /\ registry[query'.task].kind = "absent")
             => /\ query'.pc = "got"
                /\ ~query'.has_process /\ ~query'.is_running
                /\ registry' = registry /\ proc' = proc]_vars

\* C11 witness: a forced stop_process for an id without a record has returned
C11_Witness ==
    \E s \in Stoppers :
       /\ stop[s].pc = "ret" /\ stop[s].force /\ ~stop[s].hadFile
       /\ stop[s].how = "nopid" /\ ~stop[s].ret

\* C12: when stop_process finds a record whose process is not running, it
\* sends no signal, removes the record and returns True, forced or not.
C12_NotRunningIsSuccess ==
    [][\A s \in Stoppers :
          /\ (stop[s].pc = "check" /\ stop'[s].pc # "check"
                 /\ proc[stop[s].pid].state # "alive")
                => (stop'[s].pc = "rmdead" /\ proc' = proc)
          /\ (stop[s].pc = "rmdead" /\ stop'[s].pc # "rmdead")
                => /\ stop'[s].pc = "ret" /\ stop'[s].ret
                   /\ registry'[stop[s].task] = NoFile
                   /\ proc' = proc]_vars

\* C12 witness: a forced stop_process that found its process not running has
\* returned
C12_Witness ==
    \E s \in Stoppers :
       /\ stop[s].pc = "ret" /\ stop[s].force /\ stop[s].how = "dead"
       /\ stop[s].ret /\ registry[stop[s].task] = NoFile

\* C13: a stop_process call that got a pid from the registry returns False
\* only when psutil raised NoSuchProcess or AccessDenied on the way to a
\* termination signal, and the record is removed in that case too.
C13_FalseOnlyOnAccessError ==
    [][\A s \in Stoppers :
          (StopReturns(s) /\ stop[s].pid # NoPid /\ ~stop'[s].ret)
             => /\ stop[s].how \in {"NoSuchProcess", "AccessDenied"}
                /\ registry'[stop[s].task] = NoFile]_vars

\* C13 witness: a stop_process call whose signal was denied has returned False
C13_Witness ==
    \E s \in Stoppers :
       /\ stop[s].pc = "ret" /\ stop[s].how = "AccessDenied" /\ ~stop[s].ret
       /\ stop[s].pid # NoPid /\ registry[stop[s].task] = NoFile

StatusResult(q) ==
    [has_process |-> q.has_process, is_running |-> q.is_running, pid |-> q.pid]
\* the result of get_task_status for a recorded pid whose process is dead
DeadResult(p) == [has_process |-> TRUE, is_running |-> FALSE, pid |-> p]

\* C15: when the OS denies the liveness query of get_task_status, the result
\* differs from the one given for a dead process.
C15_DeniedStatusDistinct ==
    [][(StatusReturns /\ query'.denied)
          => StatusResult(query') # DeadResult(query'.pid)]_vars

\* the process recorded for task t (pid and start time) is no longer running
RecordedDead(t) ==
    /\ registry[t].kind = "ok"
    /\ ~(/\ SameProcess(proc, registry[t].pid, registry[t].timestamp)
          /\ proc[registry[t].pid].state = "alive")

\* C16: once the trainer recorded for a task has died, every get_task_status
\* gives has_process True, is_running False while the record is there; a
\* stop_process that found the record removes it.
C16_DeadTrainerStatus ==
    [][/\ (StatusReturns /\ query.pc = "check" /\ RecordedDead(query.task)
              /\ query.pid = registry[query.task].pid)
             => StatusResult(query') = DeadResult(query.pid)
       /\ \A s \in Stoppers :
             (StopReturns(s) /\ stop[s].pid # NoPid)
                => registry'[stop[s].task] = NoFile]_vars

\* the owner or an admin
Allowed == {c \in Callers : check_resource_owner(c)}
\* statuses other than RUNNING
NotRunning == TaskStatus \ {RUNNING}

\* C17: a delete request on a task that is not RUNNING, with or without
\* force, is accepted and removes the task record (after the forced stop
\* that tasks_management.py makes first for a PENDING task).
C17_DeleteNonRunning ==
    [][\A t \in Tasks, c \in Allowed :
          status[t] \in NotRunning =>
             /\ delete_task(t, c) => status'[t] = DELETED
             /\ \A s \in Stoppers, f \in BOOLEAN :
                   delete_task_force(s, t, f, c)
                      => (status'[t] = DELETED \/ stop'[s].pc = "get")]_vars

\* C18: a delete request without force on a RUNNING task is rejected and
\* changes nothing: not the task row, not the registry, no process.
C18_DeleteRunningRejected ==
    [][\A t \in Tasks, c \in Allowed :
          status[t] = RUNNING =>
             /\ delete_task(t, c) => resp' = Response("delete", 400)
             /\ \A s \in Stoppers :
                   delete_task_force(s, t, FALSE, c)
                      => resp' = Response("delete_force", 400)
             /\ (delete_task(t, c)
                   \/ \E s \in Stoppers : delete_task_force(s, t, FALSE, c))
                  => UNCHANGED <<status, error_message, refs, training_config, registry, proc,
                                 launch, stop>>]_vars

\* C18 witness: a delete of a RUNNING task, its trainer alive and recorded,
\* has been rejected
C18_Witness ==
    \E t \in Tasks :
       /\ status[t] = RUNNING /\ resp = Response("delete", 400)
       /\ registry[t].kind = "ok"
       /\ proc[registry[t].pid].state = "alive"
       /\ proc[registry[t].pid].owner = t

\* C19: when a forced delete of a RUNNING task completes, the task row is
\* gone, the registry gives no pid for the task, and the trainer the registry
\* tracked for it, if still running, has been sent SIGKILL.
C19_ForcedDeleteStopsFirst ==
    [][\A s \in Stoppers :
          (delete_task_finish(s) /\ stop[s].via = "delete_running"
              /\ HasRow(stop[s].task))
             => /\ status'[stop[s].task] = DELETED
                /\ get_pid(registry', stop[s].task) = NoPid
                /\ (/\ stop[s].pid # NoPid
                    /\ proc'[stop[s].pid].state = "alive"
                    /\ proc'[stop[s].pid].owner = stop[s].task)
                      => proc'[stop[s].pid].sig = "kill"]_vars

\* C20: cancel sets the status CANCELLED exactly when it is PENDING, QUEUED or
\* RUNNING; on a COMPLETED, FAILED or CANCELLED task it is rejected and the
\* status stays; either way the registry and the processes are untouched.
C20_CancelActiveOnly ==
    [][\A t \in Tasks, c \in Allowed :
          (HasRow(t) /\ cancel_task(t, c))
             => /\ status[t] \in {PENDING, QUEUED, RUNNING}
                      => /\ status' = [status EXCEPT ![t] = CANCELLED]
                         /\ resp' = Response("cancel", 200)
                /\ status[t] \in Terminal
                      => /\ status' = status
                         /\ resp' = Response("cancel", 400)
                /\ UNCHANGED <<registry, proc, launch, stop>>]_vars

\* C20 witness: a task whose trainer is alive and recorded has been cancelled
C20_Witness ==
    \E t \in Tasks :
       /\ status[t] = CANCELLED /\ resp = Response("cancel", 200)
       /\ registry[t].kind = "ok"
       /\ proc[registry[t].pid].state = "alive"
       /\ proc[registry[t].pid].owner = t
       /\ proc[registry[t].pid].sig = "none"

\* C21: a stop request on a COMPLETED, FAILED or CANCELLED task is rejected
\* (400) and changes nothing: not the task row, not the registry record, no
\* process is signalled and no stop_process call begins.
C21_StopTerminalRejected ==
    [][\A s \in Stoppers, t \in Tasks, f \in BOOLEAN, c \in Allowed :
          (status[t] \in Terminal /\ stop_task(s, t, f, c))
             => /\ resp' = Response("stop", 400)
                /\ UNCHANGED <<status, error_message, refs, training_config, registry, proc,
                               launch, stop>>]_vars

\* C21 witness: a stop of a CANCELLED task whose trainer is still recorded
\* and alive has been rejected
C21_Witness ==
    \E t \in Tasks :
       /\ status[t] = CANCELLED /\ resp = Response("stop", 400)
       /\ registry[t].kind = "ok"
       /\ proc[registry[t].pid].state = "alive"
       /\ proc[registry[t].pid].owner = t
       /\ proc[registry[t].pid].sig = "none"
       /\ \A s \in Stoppers : stop[s].pc = "idle"

\* a task request on task id t by caller c, of any kind
TaskRequest(t, c) ==
    \/ \E st \in TaskStatus \cup {Unset} : update_task(t, st, c)
    \/ cancel_task(t, c)
    \/ delete_task(t, c)
    \/ \E s \in Stoppers, f \in BOOLEAN : stop_task(s, t, f, c)
    \/ \E s \in Stoppers, f \in BOOLEAN : delete_task_force(s, t, f, c)

\* C22: a stop, cancel, delete or update request on a task id without a row,
\* or by a caller who is neither the owner nor an admin, is answered 404 or
\* 403 and has no effect: no status changes, no row is removed, the registry
\* is unchanged, no process is signalled and no stop_process call begins.
C22_RefusedBeforeEffect ==
    [][\A t \in Tasks, c \in Callers :
          ((~HasRow(t) \/ c \notin {"owner", "admin"}) /\ TaskRequest(t, c))
             => /\ resp'.code = IF HasRow(t) THEN 403 ELSE 404
                /\ UNCHANGED <<status, error_message, refs, training_config, registry, proc,
                               launch, stop>>]_vars

\* C22 witness: a stranger's stop request on a RUNNING task whose trainer is
\* recorded and alive has been refused
C22_Witness ==
    \E t \in Tasks :
       /\ status[t] = RUNNING /\ resp = Response("stop", 403)
       /\ registry[t].kind = "ok"
       /\ proc[registry[t].pid].state = "alive"
       /\ proc[registry[t].pid].owner = t
       /\ proc[registry[t].pid].sig = "none"
       /\ \A s \in Stoppers : stop[s].pc = "idle"

\* C23: registry round trip.  After save_pid(t, p) has written the file,
\* get_pid(t) gives p, whatever has become of process p, and saving the same
\* again leaves the same record; after remove_pid_file(t), get_pid(t) gives
\* no pid, and removing an absent record changes nothing.
C23_RegistryRoundTrip ==
    [][/\ \A l \in Launchers :
             start_training_task_save(l, TRUE)
                => /\ get_pid(registry', launch[l].task) = launch[l].pid
                   /\ save_pid(registry', proc', launch[l].task,
                               launch[l].pid, TRUE) = registry'
       /\ \A s \in Stoppers :
             stop_process_remove(s)
                => /\ get_pid(registry', stop[s].task) = NoPid
                   /\ registry[stop[s].task] = NoFile => registry' = registry]_vars

C25_TierMappingTotal ==
    [][\A cx \in TierStrings :
          get_lora_config_call(cx)
             => lora'.config = CASE cx = "l1_basic" -> LORA_CONFIG_L1
                                 [] cx = "l2_domain" -> LORA_CONFIG_L2
                                 [] cx = "l3_complex" -> LORA_CONFIG_L3
                                 [] OTHER -> LORA_CONFIG_L2]_vars

\* C25 witness: get_lora_config has answered an unknown tier with the
\* l2_domain preset
C25_Witness ==
    /\ lora.complexity = "unknown_tier"
    /\ lora.config.rank = 16 /\ lora.config.alpha = 32
    /\ lora.config.learning_rate = Float(1, -4)

\* C26: create stores every task PENDING with lora_rank, lora_alpha,
\* learning_rate and target modules of its tier's preset (l1_basic: 8, 16,
\* 3e-4), at a time when the task has no process and no registry record, and
\* the stored parameters stay with the row.
C26_CreateResolvesConfig ==
    [][/\ \A t \in Tasks, cx \in TaskComplexity :
             create_task(t, cx)
                => /\ status'[t] = PENDING
                   /\ training_config'[t].task_complexity = cx
                   /\ training_config'[t].lora_rank = LORA_CONFIG_MAP[cx].rank
                   /\ training_config'[t].lora_alpha = LORA_CONFIG_MAP[cx].alpha
                   /\ training_config'[t].learning_rate
                         = LORA_CONFIG_MAP[cx].learning_rate
                   /\ training_config'[t].lora_target_modules
                         = LORA_CONFIG_MAP[cx].target_modules
                   /\ cx = "l1_basic"
                         => /\ training_config'[t].lora_rank = 8
                            /\ training_config'[t].lora_alpha = 16
                            /\ training_config'[t].learning_rate = Float(3, -4)
                   /\ registry[t] = NoFile /\ registry'[t] = NoFile
                   /\ \A p \in Pids : proc'[p].owner # t
       /\ \A t \in Tasks :
             (HasRow(t) /\ status'[t] \in TaskStatus)
                => training_config'[t] = training_config[t]]_vars

\* C26 witness: an l1_basic task has been created
C26_Witness ==
    \E t \in Tasks :
       /\ status[t] = PENDING /\ resp = Response("create", 201)
       /\ training_config[t].task_complexity = "l1_basic"
       /\ training_config[t].lora_rank = 8
       /\ training_config[t].lora_alpha = 16
       /\ training_config[t].learning_rate = Float(3, -4)
       /\ training_config[t].lora_target_modules = AttentionModules

\* the step is one of an operation of the process manager for task t: the
\* save of a launch of t, a step of a stop_process(t) call or of a
\* get_task_status(t) call
OperationOn(t) ==
    \/ \E l \in Launchers : launch[l].task = t /\ launch'[l] # launch[l]
    \/ \E s \in Stoppers :
          /\ stop'[s] # stop[s]
          /\ (stop[s].task = t \/ (stop[s].pc = "idle" /\ stop'[s].task = t))
    \/ query' # query /\ (query.task = t \/ query'.task = t)

\* C27: the operations are keyed by task id: a step that creates, changes
\* or deletes the registry record of a task is a step of an operation for
\* that task and touches no other task's record.
C27_KeyedByTaskId ==
    [][\A t1 \in Tasks :
          registry'[t1] # registry[t1]
             => /\ OperationOn(t1)
                /\ \A t2 \in Tasks \ {t1} : registry'[t2] = registry[t2]]_vars

\* C27 witness: two tasks have records and a stop_process call has removed
\* the record of one of them, the other's record in place
C27_Witness ==
    \E s \in Stoppers, t2 \in Tasks :
       /\ stop[s].pc = "ret" /\ stop[s].pid # NoPid /\ stop[s].task # t2
       /\ registry[stop[s].task] = NoFile
       /\ registry[t2].kind = "ok"

\* the trainer launched and recorded for task t has ended, the task RUNNING
TrainerEnded(t) ==
    /\ status[t] = RUNNING
    /\ RecordedDead(t)
    /\ \A l \in Launchers : ~Launching(l, t)

\* the task's record is gone from the registry and its status is final
Settled(t) ==
    /\ registry[t] = NoFile
    /\ status[t] \in Terminal \cup {DELETED}

\* C28: after the trainer of a launched task has ended, the registry
\* eventually holds no record for the task and the task's status is
\* CANCELLED, COMPLETED or FAILED.
C28_TerminationRecorded ==
    \A t \in Tasks : TrainerEnded(t) ~> Settled(t)

\* C29: a forced stop_process call sends SIGKILL and nothing else: it never
\* sends SIGTERM, never waits for the process and never times out, so it
\* returns after its signal whatever the process does with signals.
C29_ForcedStopBounded ==
    [][\A s \in Stoppers :
          (stop[s].force /\ stop'[s].pc # stop[s].pc)
             => /\ stop'[s].pc \notin {"wait", "kill"}
                /\ ~stop'[s].timedout
                /\ \A p \in Pids : proc'[p].sig = "term" => proc[p].sig = "term"
                /\ stop[s].pc = "signal"
                      => \/ /\ stop'[s].pc = "rmok"
                            /\ proc' = send_signal(proc, stop[s].pid, "kill")
                         \/ stop'[s].pc = "rmfail" /\ proc' = proc
                /\ stop[s].pc \in {"rmok", "rmfail", "rmdead"}
                      => stop'[s].pc = "ret"]_vars

\* C29 witness: a forced stop_process call has returned True with its target
\* still there, SIGKILL sent to it
C29_Witness ==
    \E s \in Stoppers :
       /\ stop[s].pc = "ret" /\ stop[s].force /\ stop[s].how = "kill"
       /\ stop[s].ret /\ ~stop[s].timedout
       /\ proc[stop[s].pid].state = "alive"
       /\ proc[stop[s].pid].sig = "kill"

\* C30: while a task is CANCELLED by a stop request (the last response given
\* is the success of that request), every trainer of the task that is still
\* alive has been sent a termination signal.
C30_CancelledMeansSignalled ==
    \A t \in 1..ApiTasks :
       (status[t] = CANCELLED /\ resp = Response("stop", 200))
          => \A p \in Pids :
                (proc[p].owner = t /\ proc[p].state = "alive")
                   => proc[p].sig # "none"

\* C31: a launch moves a task to RUNNING only from PENDING: begun on a task
\* that is QUEUED, RUNNING, COMPLETED, FAILED or CANCELLED it does not go on to
\* start a trainer and does not set the status RUNNING.
C31_LaunchOnlyFromPending ==
    [][\A l \in Launchers, t \in Tasks :
          (start_training_task_begin(l, t) /\ status[t] \in TaskStatus \ {PENDING})
             => /\ launch'[l].pc # "prepare"
                /\ status[t] # RUNNING => status'[t] # RUNNING]_vars

\* C32: a stop_process call that got a pid from the registry returns, on
\* each of its paths (process not running, forced kill, graceful exit,
\* escalation, failed signal), with no record for the task in the registry.
C32_StopClearsRecord ==
    [][\A s \in Stoppers :
          (StopReturns(s) /\ stop[s].pid # NoPid)
             => /\ stop[s].pc \in {"rmdead", "rmok", "rmfail"}
                /\ registry'[stop[s].task].kind = "absent"
                /\ get_pid(registry', stop[s].task) = NoPid]_vars

\* C32 witness: a stop_process call that escalated has returned, the record
\* gone
C32_Witness ==
    \E s \in Stoppers :
       /\ stop[s].pc = "ret" /\ stop[s].timedout /\ stop[s].hadFile
       /\ stop[s].pid # NoPid /\ registry[stop[s].task].kind = "absent"

\* C33: when a stop_process call returns True, the process it tracked for
\* the task (the recorded pid as the call found it) is not running at that
\* moment, forced or not, and also after a denied liveness query.
C33_TrueMeansNotRunning ==
    [][\A s \in Stoppers :
          (StopReturns(s) /\ stop'[s].ret)
             => ~(/\ SameProcess(proc', stop[s].pid, stop[s].start)
                  /\ is_process_running(proc', stop[s].pid, TRUE))]_vars

\* C34: no trainer is orphaned: once the launches of a task have returned,
\* every live trainer of the task is the process its registry record names
\* (so the task has at most one live trainer).
C34_NoOrphanTrainer ==
    \A t \in Tasks :
       (~\E l \in Launchers : Launching(l, t))
          => \A p \in Pids :
                (proc[p].owner = t /\ proc[p].state = "alive"
                    /\ proc[p].sig = "none")
                   => /\ registry[t].kind = "ok"
                      /\ registry[t].pid = p
                      /\ registry[t].timestamp = proc[p].start

\* C35: when a delete request removes a task's row, the registry holds no
\* record of the task and no trainer of the task is running.
C35_DeleteLeavesNothing ==
    [][\A t \in Tasks :
          (HasRow(t) /\ status'[t] = DELETED)
             => /\ registry'[t].kind = "absent"
                /\ \A p \in Pids :
                      ~(/\ proc'[p].owner = t
                        /\ proc'[p].state = "alive"
                        /\ proc'[p].sig = "none")]_vars

\* C36: is_process_running is true exactly when the OS answers and reports
\* the process alive and not a zombie; a zombie, a missing process or a
\* denied query give False and no exception.  So a stop_process that finds
\* its process a zombie sends no signal, removes the record and returns True.
C36_LivenessTest ==
    [][/\ \A s \in Stoppers :
             (stop[s].pc = "check" /\ stop'[s].pc # "check")
                => /\ stop'[s].pc \in {"signal", "rmdead"}
                   /\ stop'[s].pc = "signal"
                         <=> (/\ proc[stop[s].pid].state = "alive"
                              /\ stop'[s].how # "querydenied")
                   /\ proc' = proc /\ registry' = registry
       /\ (query.pc = "check" /\ query'.pc = "got")
             => (query'.is_running
                   <=> (proc[query.pid].state = "alive" /\ ~query'.denied))
       /\ \A s \in Stoppers :
             (StopReturns(s) /\ stop[s].pc = "rmdead")
                => /\ stop'[s].ret
                   /\ registry'[stop[s].task] = NoFile
                   /\ proc' = proc]_vars

\* C36 witness: a stop_process has returned True with the record removed
\* while the process it found is still a zombie
C36_Witness ==
    \E s \in Stoppers :
       /\ stop[s].pc = "ret" /\ stop[s].how = "dead" /\ stop[s].ret
       /\ stop[s].pid # NoPid
       /\ proc[stop[s].pid].state = "zombie"
       /\ proc[stop[s].pid].start = stop[s].start
       /\ proc[stop[s].pid].owner = stop[s].task
       /\ registry[stop[s].task] = NoFile

\* C37: get_task_status only reads: it returns has_process True exactly when
\* get_pid gives a pid, is_running as is_process_running tells it for that
\* pid, and no step of it changes the registry, a task's row or a process,
\* also when the recorded process is dead.
C37_StatusOnlyReads ==
    [][/\ (query' # query)
             => /\ registry' = registry /\ proc' = proc
                /\ status' = status /\ error_message' = error_message
       /\ StatusBegins
             => /\ query'.pc = "got" <=> get_pid(registry, query'.task) = NoPid
                /\ query'.pc = "got"
                      => (~query'.has_process /\ ~query'.is_running)
       /\ (query.pc = "check" /\ query'.pc = "got")
             => /\ query'.has_process
                /\ query'.pid = query.pid
                /\ query'.is_running
                      = is_process_running(proc, query.pid, ~query'.denied)]_vars

\* C37 witness: get_task_status has answered for a record whose process is
\* dead, and the record is still there
C37_Witness ==
    /\ query.pc = "got" /\ query.has_process /\ ~query.is_running
    /\ ~query.denied
    /\ registry[query.task].kind = "ok"
    /\ registry[query.task].pid = query.pid
    /\ proc[query.pid].state # "alive"

\* C38: the training_config.json written for a trainer is not written again:
\* while a trainer spawned for a task is alive, no launch rewrites the file
\* of the task's output directory.
C38_ConfigFileImmutable ==
    [][\A t \in Tasks :
          (/\ config_file[t] # NoConfigFile
           /\ \E p \in Pids : proc[p].owner = t /\ proc[p].state = "alive")
             => config_file'[t] = config_file[t]]_vars

\* the launch l begins, for task t
LaunchBegins(l, t) ==
    launch[l].pc = "idle" /\ launch'[l].pc # "idle" /\ launch'[l].task = t

\* C39: a launch of a task whose model or dataset row is missing returns
\* False at once, sets the task FAILED with an error message, spawns nothing
\* and writes no registry record; a launch of an unknown task id returns
\* False at once and changes no task, registry record or process.
C39_LaunchWithoutRows ==
    [][\A l \in Launchers, t \in Tasks :
          /\ (LaunchBegins(l, t) /\ HasRow(t) /\ ~refs[t])
                => /\ launch'[l].pc = "done" /\ ~launch'[l].ret
                   /\ status' = [status EXCEPT ![t] = FAILED]
                   /\ error_message'[t] = ModelOrDatasetNotFound
                   /\ error_message'[t] # ""
                   /\ proc' = proc /\ registry' = registry
                   /\ config_file' = config_file
          /\ (LaunchBegins(l, t) /\ ~HasRow(t))
                => /\ launch'[l].pc = "done" /\ ~launch'[l].ret
                   /\ status' = status /\ error_message' = error_message
                   /\ refs' = refs /\ training_config' = training_config
                   /\ proc' = proc /\ registry' = registry
                   /\ config_file' = config_file]_vars

\* C39 witness: a launch of a task without its model or dataset has ended
\* False, the task FAILED, with no process and no registry record
C39_Witness ==
    \E l \in Launchers :
       LET t == launch[l].task IN
       /\ launch[l].pc = "done" /\ launch[l].failed = "refs" /\ ~launch[l].ret
       /\ status[t] = FAILED /\ error_message[t] = ModelOrDatasetNotFound
       /\ registry[t].kind = "absent"
       /\ \A p \in Pids : proc[p].state = "free"

====
